---- MODULE Spec2Model ----
(***************************************************************************)
(* A model of http-api-problem (src/src/lib.rs): the HttpApiProblem value, *)
(* its constructors and builder-style setters, the extension map with its  *)
(* reserved keys, and the serde encoding / decoding of the struct.         *)
(*                                                                         *)
(* A caller owns at most one HttpApiProblem at a time: it constructs one,  *)
(* calls methods on it and drops it.  `pre` is the value of the entity     *)
(* when the last call started, `problem` its value when the call returned, *)
(* `call` the call's name, arguments and result.                           *)
(***************************************************************************)
EXTENDS Integers, Sequences, FiniteSets, TLC

VARIABLES problem, owned, pre, call, ops

vars == <<problem, owned, pre, call, ops>>

(***************************************************************************)
(* Bounds of the model.                                                    *)
(***************************************************************************)
\* the number of method calls made on one entity before it is dropped
MaxOps == 2
\* the number of members of a JSON object handed to the decoder
MaxMembers == 2

(***************************************************************************)
(* Option<T>: None is the empty sequence, Some(x) the one-element one.     *)
(***************************************************************************)
None == <<>>

Some(x) == <<x>>

is_none(o) == o = <<>>

is_some(o) == o /= <<>>

unwrap(o) == o[1]

unwrap_or(o, d) == IF o = <<>> THEN d ELSE o[1]

(***************************************************************************)
(* serde_json::Value.  Every value is a record of the same shape so that   *)
(* any two can be compared: t is the variant, n / s / b its payload.       *)
(***************************************************************************)
JNull == [t |-> "Null", n |-> 0, s |-> "", b |-> FALSE]

JBool(x) == [t |-> "Bool", n |-> 0, s |-> "", b |-> x]

JNumber(x) == [t |-> "Number", n |-> x, s |-> "", b |-> FALSE]

JString(x) == [t |-> "String", n |-> 0, s |-> x, b |-> FALSE]

(***************************************************************************)
(* Rust values handed to the generic `V: Serialize` parameter of the       *)
(* extension setters, and returned by get_value::<V>.                      *)
(***************************************************************************)
RU64(x) == [ty |-> "u64", n |-> x, s |-> "", b |-> FALSE]

RString(x) == [ty |-> "String", n |-> 0, s |-> x, b |-> FALSE]

RBool(x) == [ty |-> "bool", n |-> 0, s |-> "", b |-> x]

\* a value whose Serialize impl fails under serde_json (a map keyed by a
\* non-string type)
RBadMap == [ty |-> "BadMap", n |-> 0, s |-> "", b |-> FALSE]

\* serde_json::to_value: [ok, v, err]
to_value(value) ==
    CASE value.ty = "u64" -> [ok |-> TRUE, v |-> JNumber(value.n), err |-> ""]
      [] value.ty = "String" -> [ok |-> TRUE, v |-> JString(value.s), err |-> ""]
      [] value.ty = "bool" -> [ok |-> TRUE, v |-> JBool(value.b), err |-> ""]
      [] OTHER -> [ok |-> FALSE, v |-> JNull, err |-> "key must be a string"]

\* serde_json::from_value::<V>(v).ok() for the target type named ty
from_value(ty, v) ==
    CASE ty = "Value" -> Some(v)
      [] ty = "u64" /\ v.t = "Number" /\ v.n >= 0 -> Some(RU64(v.n))
      [] ty = "String" /\ v.t = "String" -> Some(RString(v.s))
      [] ty = "bool" /\ v.t = "Bool" -> Some(RBool(v.b))
      [] OTHER -> None

(***************************************************************************)
(* http::StatusCode                                                        *)
(***************************************************************************)
U16_MAX == 65535

INTERNAL_SERVER_ERROR == 500

\* StatusCode::try_from(u16): Ok for 100..=999
StatusCode_try_from(n) ==
    IF n >= 100 /\ n < 1000
      THEN [ok |-> TRUE, status |-> n]
      ELSE [ok |-> FALSE, status |-> 0]

\* StatusCode::canonical_reason, on the codes of this model
canonical_reason(status) ==
    CASE status = 100 -> Some("Continue")
      [] status = 404 -> Some("Not Found")
      [] status = 500 -> Some("Internal Server Error")
      [] status = 503 -> Some("Service Unavailable")
      [] OTHER -> None

Digit(d) ==
    CASE d = 0 -> "0" [] d = 1 -> "1" [] d = 2 -> "2" [] d = 3 -> "3"
      [] d = 4 -> "4" [] d = 5 -> "5" [] d = 6 -> "6" [] d = 7 -> "7"
      [] d = 8 -> "8" [] OTHER -> "9"

RECURSIVE to_string(_)
\* the decimal numeral of a u16, as format!("{}", n) writes it
to_string(n) == IF n < 10 THEN Digit(n) ELSE to_string(n \div 10) \o Digit(n % 10)

(***************************************************************************)
(* HttpApiProblem                                                          *)
(***************************************************************************)
EmptyMap == [k \in {} |-> JNull]

empty ==
    [type_url |-> None, status |-> None, title |-> None, detail |-> None,
     instance |-> None, additional_fields |-> EmptyMap]

status(self, s) == [self EXCEPT !.status = Some(s)]

type_url(self, s) == [self EXCEPT !.type_url = Some(s)]

\* title keeping a title that is already there
title_if_absent(self, s) ==
    IF is_some(self.title) THEN self ELSE [self EXCEPT !.title = Some(s)]

title(self, s) == [self EXCEPT !.title = Some(s)]

detail(self, s) == [self EXCEPT !.detail = Some(s)]

instance(self, s) == [self EXCEPT !.instance = Some(s)]

new(s) == status(empty, s)

with_title(s) == title(new(s), unwrap_or(canonical_reason(s), "<unknown status code>"))

\* with_title_and_type with the code left out of the URL
with_title_and_type_without_code(s) ==
    type_url(with_title(s), "https://httpstatuses.com/")

with_title_and_type(s) ==
    type_url(with_title(s), "https://httpstatuses.com/" \o to_string(s))

\* Result<Self, InvalidStatusCode> and Result<_, String> are records
\* [res, err, self]: res is "Ok" or "Err", self the entity when the call returns
Ok(self) == [res |-> "Ok", err |-> "", self |-> self]

Err(e, self) == [res |-> "Err", err |-> e, self |-> self]

\* try_new without the conversion's check
try_new_unchecked(n) == Ok(new(n))

try_new(n) ==
    LET c == StatusCode_try_from(n)
    IN  IF c.ok THEN Ok(new(c.status)) ELSE Err("InvalidStatusCode", empty)

try_with_title(n) ==
    LET c == StatusCode_try_from(n)
    IN  IF c.ok THEN Ok(with_title(c.status)) ELSE Err("InvalidStatusCode", empty)

try_with_title_and_type(n) ==
    LET c == StatusCode_try_from(n)
    IN  IF c.ok THEN Ok(with_title_and_type(c.status))
                ELSE Err("InvalidStatusCode", empty)

\* try_status: the conversion fails before the assignment
try_status(self, n) ==
    LET c == StatusCode_try_from(n)
    IN  IF c.ok THEN Ok(status(self, c.status)) ELSE Err("InvalidStatusCode", self)

ReservedNames == {"type", "status", "title", "detail", "instance", "additional_fields"}

\* an insert that drops the entries the map had
insert_replacing_all(map, key, v) == [k \in {key} |-> v]

\* HashMap::insert
insert(map, key, v) ==
    [k \in DOMAIN map \cup {key} |-> IF k = key THEN v ELSE map[k]]

\* try_set_value without the match on the reserved names
try_set_value_unchecked(self, key, value) ==
    LET serialized == to_value(value)
    IN  IF ~serialized.ok
          THEN Err(serialized.err, self)
          ELSE Ok([self EXCEPT !.additional_fields =
                      insert(self.additional_fields, key, serialized.v)])

\* try_set_value with the reserved names checked after the insert
try_set_value_insert_first(self, key, value) ==
    LET serialized == to_value(value)
        after == [self EXCEPT !.additional_fields =
                     insert(self.additional_fields, key, serialized.v)]
    IN  IF ~serialized.ok THEN Err(serialized.err, self)
        ELSE IF key \in ReservedNames
          THEN Err("'" \o key \o "' is a reserved field name", after)
          ELSE Ok(after)

\* try_set_value with the "instance" arm of the match left out
try_set_value_instance_unchecked(self, key, value) ==
    IF key \in ReservedNames \ {"instance"}
      THEN Err("'" \o key \o "' is a reserved field name", self)
      ELSE LET serialized == to_value(value)
           IN  IF ~serialized.ok
                 THEN Err(serialized.err, self)
                 ELSE Ok([self EXCEPT !.additional_fields =
                             insert(self.additional_fields, key, serialized.v)])

\* try_set_value: the reserved names, then the serialization, then the insert
try_set_value(self, key, value) ==
    IF key \in ReservedNames
      THEN Err("'" \o key \o "' is a reserved field name", self)
      ELSE LET serialized == to_value(value)
           IN  IF ~serialized.ok
                 THEN Err(serialized.err, self)
                 ELSE Ok([self EXCEPT !.additional_fields =
                             insert(self.additional_fields, key, serialized.v)])

\* try_value: self.try_set_value(key, value)?; Ok(self)
try_value(self, key, value) == try_set_value(self, key, value)

\* set_value handing on the result of try_set_value
set_value_propagating(self, key, value) == try_set_value(self, key, value)

\* set_value: let _ = self.try_set_value(key, value);
set_value(self, key, value) == Ok(try_set_value(self, key, value).self)

\* value: self.set_value(key, value); self
value(self, key, v) == Ok(set_value(self, key, v).self)

\* json_value: Option<&Value>
json_value(self, key) ==
    IF key \in DOMAIN self.additional_fields
      THEN Some(self.additional_fields[key])
      ELSE None

\* get_value converting whatever is stored, without the check of its type
get_value_unchecked(self, key, ty) ==
    LET j == json_value(self, key)
    IN  IF is_none(j) THEN None
        ELSE IF ty = "u64" THEN Some(RU64(unwrap(j).n)) ELSE Some(RString(unwrap(j).s))

\* get_value::<V>: json_value(key).and_then(|v| from_value(v.clone()).ok())
get_value(self, key, ty) ==
    LET j == json_value(self, key)
    IN  IF is_none(j) THEN None ELSE from_value(ty, unwrap(j))

\* the fallback returned whatever the status
status_or_internal_server_error_always(self) == INTERNAL_SERVER_ERROR

status_or_internal_server_error(self) == unwrap_or(self.status, INTERNAL_SERVER_ERROR)

(***************************************************************************)
(* impl fmt::Display for HttpApiProblem                                    *)
(***************************************************************************)
\* <StatusCode as Display>::fmt: the numeral, a space and the reason phrase
StatusCode_fmt(s) ==
    to_string(s) \o " " \o unwrap_or(canonical_reason(s), "<unknown status code>")

\* fmt with the type URL written after the title and the detail as well
fmt_type_url_always(self) ==
    (IF is_some(self.status) THEN StatusCode_fmt(unwrap(self.status)) ELSE "<no status>")
    \o (IF is_some(self.title) THEN " - " \o unwrap(self.title) ELSE "")
    \o (IF is_some(self.detail) THEN " - " \o unwrap(self.detail) ELSE "")
    \o (IF is_some(self.type_url) THEN " - " \o unwrap(self.type_url) ELSE "")

\* fmt: the status, then the match on (title, detail), whose first three arms
\* return, then the type URL
fmt(self) ==
    LET head == IF is_some(self.status)
                  THEN StatusCode_fmt(unwrap(self.status))
                  ELSE "<no status>"
    IN  CASE is_some(self.title) /\ is_some(self.detail) ->
               head \o " - " \o unwrap(self.title) \o " - " \o unwrap(self.detail)
          [] is_some(self.title) /\ is_none(self.detail) ->
               head \o " - " \o unwrap(self.title)
          [] is_none(self.title) /\ is_some(self.detail) ->
               head \o " - " \o unwrap(self.detail)
          [] OTHER ->
               IF is_some(self.type_url)
                 THEN head \o " - " \o unwrap(self.type_url)
                 ELSE head

(***************************************************************************)
(* Serialize (serde derive, lines 158-196).  A JSON object is the sequence *)
(* of its members [name, v] in the order they are written.                 *)
(***************************************************************************)
Member(name, v) == [name |-> name, v |-> v]

\* the status written as a string
custom_serialize_as_string(st) ==
    IF is_some(st) THEN JString(to_string(unwrap(st))) ELSE JNull

\* custom_http_status_serialization::serialize
custom_serialize(st) == IF is_some(st) THEN JNumber(unwrap(st)) ELSE JNull

\* a field without the skip_serializing_if attribute
serialize_always(name, opt, v) == <<Member(name, v)>>

\* #[serde(skip_serializing_if = "Option::is_none")] on a field
skip_serializing_if_none(name, opt, v) ==
    IF is_none(opt) THEN <<>> ELSE <<Member(name, v)>>

\* an Option<String> field that is serialized
serialize_string(opt) == IF is_some(opt) THEN JString(unwrap(opt)) ELSE JNull

\* the map skipped instead of flattened
flatten_skipped(map, order) == <<>>

RECURSIVE flatten(_, _)
\* #[serde(flatten)]: the map's entries, in the iteration order `order`
flatten(map, order) ==
    IF order = <<>> THEN <<>>
    ELSE <<Member(Head(order), map[Head(order)])>> \o flatten(map, Tail(order))

\* the iteration orders a HashMap with this key set may have
Orders(map) ==
    {o \in [1..Cardinality(DOMAIN map) -> DOMAIN map] :
        \A i, j \in DOMAIN o : i /= j => o[i] /= o[j]}

\* <HttpApiProblem as Serialize>::serialize, the map iterated in `order`
serialize(self, order) ==
    skip_serializing_if_none("type", self.type_url, serialize_string(self.type_url))
    \o skip_serializing_if_none("status", self.status, custom_serialize(self.status))
    \o skip_serializing_if_none("title", self.title, serialize_string(self.title))
    \o skip_serializing_if_none("detail", self.detail, serialize_string(self.detail))
    \o skip_serializing_if_none("instance", self.instance, serialize_string(self.instance))
    \o flatten(self.additional_fields, order)

\* json_string / json_bytes: serde_json::to_string(self).unwrap().  Every
\* Value serializes and every key is a string, so to_string returns Ok.
json_string(self, order) == serialize(self, order)

json_bytes(self, order) == serialize(self, order)

(***************************************************************************)
(* Deserialize (serde derive with a flattened field): known members are    *)
(* deserialized in place, all others are collected and then deserialized   *)
(* into the HashMap.                                                       *)
(***************************************************************************)
\* <Option<String> as Deserialize>: [ok, v]
deserialize_option_string(v) ==
    CASE v.t = "Null" -> [ok |-> TRUE, v |-> None]
      [] v.t = "String" -> [ok |-> TRUE, v |-> Some(v.s)]
      [] OTHER -> [ok |-> FALSE, v |-> None]

\* <Option<u16> as Deserialize>: [ok, v]
deserialize_option_u16(v) ==
    CASE v.t = "Null" -> [ok |-> TRUE, v |-> None]
      [] v.t = "Number" /\ v.n >= 0 /\ v.n <= U16_MAX -> [ok |-> TRUE, v |-> Some(v.n)]
      [] OTHER -> [ok |-> FALSE, v |-> None]

\* custom_http_status_serialization::deserialize: [ok, v]
custom_deserialize(v) ==
    LET s == deserialize_option_u16(v)
    IN  IF ~s.ok THEN [ok |-> FALSE, v |-> None]
        ELSE IF is_some(s.v)
          THEN LET c == StatusCode_try_from(unwrap(s.v))
               IN  [ok |-> TRUE, v |-> IF c.ok THEN Some(c.status) ELSE None]
          ELSE [ok |-> TRUE, v |-> None]

\* the visitor's state before the first member: no field seen, nothing collected
VisitStart ==
    [ok |-> TRUE, err |-> "", seen |-> {}, self |-> empty]

\* unknown members denied
collect_denied(acc, m) == [acc EXCEPT !.ok = FALSE, !.err = "unknown field"]

\* a member with none of the five wire names: kept for the flattened map, where
\* a later member of the same name replaces an earlier one
collect(acc, m) ==
    [acc EXCEPT !.self.additional_fields = insert(@, m.name, m.v)]

\* one member of the object
visit_member(acc, m) ==
    LET dup == [acc EXCEPT !.ok = FALSE, !.err = "duplicate field"]
        bad == [acc EXCEPT !.ok = FALSE, !.err = "invalid type"]
        range == [acc EXCEPT !.ok = FALSE, !.err = "invalid value, expected u16"]
        str == deserialize_option_string(m.v)
        st == custom_deserialize(m.v)
        got == [acc EXCEPT !.seen = @ \cup {m.name}]
    IN  CASE m.name = "type" ->
               IF "type" \in acc.seen THEN dup
               ELSE IF ~str.ok THEN bad
               ELSE [got EXCEPT !.self.type_url = str.v]
          [] m.name = "status" ->
               IF "status" \in acc.seen THEN dup
               ELSE IF ~st.ok THEN (IF m.v.t = "Number" THEN range ELSE bad)
               ELSE [got EXCEPT !.self.status = st.v]
          [] m.name = "title" ->
               IF "title" \in acc.seen THEN dup
               ELSE IF ~str.ok THEN bad
               ELSE [got EXCEPT !.self.title = str.v]
          [] m.name = "detail" ->
               IF "detail" \in acc.seen THEN dup
               ELSE IF ~str.ok THEN bad
               ELSE [got EXCEPT !.self.detail = str.v]
          [] m.name = "instance" ->
               IF "instance" \in acc.seen THEN dup
               ELSE IF ~str.ok THEN bad
               ELSE [got EXCEPT !.self.instance = str.v]
          [] OTHER -> collect(acc, m)

RECURSIVE visit_map(_, _)
\* the members in order; the first error ends the visit
visit_map(acc, members) ==
    IF members = <<>> \/ ~acc.ok THEN acc
    ELSE visit_map(visit_member(acc, Head(members)), Tail(members))

\* <HttpApiProblem as Deserialize>::deserialize of a JSON object
deserialize(members) ==
    LET r == visit_map(VisitStart, members)
    IN  IF r.ok THEN Ok(r.self) ELSE Err(r.err, empty)

(***************************************************************************)
(* The inputs of the model.                                                *)
(***************************************************************************)
\* arguments of type StatusCode (299 has no canonical reason)
StatusCodes == {299, 404, 503}

\* arguments of type u16
RawNumerals == {0, 99, 404, 1000, U16_MAX}

\* arguments of type String
Strings == {"a", "b"}

\* extension keys: the reserved names and two free ones, one of them the name
\* of a struct field that is not a wire name
Keys == ReservedNames \cup {"trace", "type_url"}

\* arguments for `value: &V`
Values == {RU64(7), RBadMap}

\* target types of get_value::<V>
Types == {"u64", "String"}

\* members a decoded object is made of
MemberPool ==
    {Member("type", JString("a")), Member("type", JNumber(1)),
     Member("status", JNumber(404)), Member("status", JNumber(99)),
     Member("status", JNumber(99999)), Member("status", JString("404")),
     Member("status", JNull),
     Member("title", JString("a")), Member("title", JNull),
     Member("detail", JString("a")), Member("instance", JString("a")),
     Member("trace", JString("a")),
     Member("additional_fields", JString("a"))}

\* the JSON objects handed to the decoder
Documents == UNION {[1..n -> MemberPool] : n \in 0..MaxMembers}

(***************************************************************************)
(* The state machine.                                                      *)
(***************************************************************************)
NoCall == [op |-> "none", res |-> "Ok"]

Init ==
    /\ problem = empty
    /\ owned = FALSE
    /\ pre = empty
    /\ call = NoCall
    /\ ops = 0

\* a constructor returned r
Constructed(c, r) ==
    /\ call = NoCall
    /\ problem' = r.self
    /\ owned' = (r.res = "Ok")
    /\ pre' = empty
    /\ call' = c
    /\ ops' = 0

\* a method that takes self by value or by &mut returned r; a by-value method
\* that fails drops the entity
Called(c, r, keeps) ==
    /\ owned
    /\ ops < MaxOps
    /\ problem' = r.self
    /\ owned' = (keeps \/ r.res = "Ok")
    /\ pre' = problem
    /\ call' = c
    /\ ops' = ops + 1

Empty == Constructed([op |-> "empty", res |-> "Ok"], Ok(empty))

New ==
    \E s \in StatusCodes :
        Constructed([op |-> "new", res |-> "Ok", num |-> s], Ok(new(s)))

TryNew ==
    \E n \in RawNumerals :
        LET r == try_new(n)
        IN  Constructed([op |-> "try_new", res |-> r.res, err |-> r.err, num |-> n], r)

WithTitle ==
    \E s \in StatusCodes :
        Constructed([op |-> "with_title", res |-> "Ok", num |-> s], Ok(with_title(s)))

TryWithTitle ==
    \E n \in RawNumerals :
        LET r == try_with_title(n)
        IN  Constructed([op |-> "try_with_title", res |-> r.res, err |-> r.err,
                         num |-> n], r)

WithTitleAndType ==
    \E s \in StatusCodes :
        Constructed([op |-> "with_title_and_type", res |-> "Ok", num |-> s],
                    Ok(with_title_and_type(s)))

TryWithTitleAndType ==
    \E n \in RawNumerals :
        LET r == try_with_title_and_type(n)
        IN  Constructed([op |-> "try_with_title_and_type", res |-> r.res,
                         err |-> r.err, num |-> n], r)

Deserialize ==
    \E d \in Documents :
        LET r == deserialize(d)
        IN  Constructed([op |-> "deserialize", res |-> r.res, err |-> r.err,
                         doc |-> d], r)

Status ==
    \E s \in StatusCodes :
        Called([op |-> "status", res |-> "Ok", num |-> s], Ok(status(problem, s)), FALSE)

TryStatus ==
    \E n \in RawNumerals :
        LET r == try_status(problem, n)
        IN  Called([op |-> "try_status", res |-> r.res, err |-> r.err, num |-> n],
                   r, FALSE)

TypeUrl ==
    \E s \in Strings :
        Called([op |-> "type_url", res |-> "Ok", str |-> s],
               Ok(type_url(problem, s)), FALSE)

Title ==
    \E s \in Strings :
        Called([op |-> "title", res |-> "Ok", str |-> s], Ok(title(problem, s)), FALSE)

Detail ==
    \E s \in Strings :
        Called([op |-> "detail", res |-> "Ok", str |-> s], Ok(detail(problem, s)), FALSE)

Instance ==
    \E s \in Strings :
        Called([op |-> "instance", res |-> "Ok", str |-> s],
               Ok(instance(problem, s)), FALSE)

TrySetValue ==
    \E k \in Keys, v \in Values :
        LET r == try_set_value(problem, k, v)
        IN  Called([op |-> "try_set_value", res |-> r.res, err |-> r.err,
                    key |-> k, arg |-> v], r, TRUE)

TryValue ==
    \E k \in Keys, v \in Values :
        LET r == try_value(problem, k, v)
        IN  Called([op |-> "try_value", res |-> r.res, err |-> r.err,
                    key |-> k, arg |-> v], r, FALSE)

SetValue ==
    \E k \in Keys, v \in Values :
        LET r == set_value(problem, k, v)
        IN  Called([op |-> "set_value", res |-> r.res, err |-> r.err,
                    key |-> k, arg |-> v], r, TRUE)

Value ==
    \E k \in Keys, v \in Values :
        LET r == value(problem, k, v)
        IN  Called([op |-> "value", res |-> r.res, err |-> r.err,
                    key |-> k, arg |-> v], r, FALSE)

GetValue ==
    \E k \in Keys, ty \in Types :
        Called([op |-> "get_value", res |-> "Ok", key |-> k, ty |-> ty,
                out |-> get_value(problem, k, ty)], Ok(problem), TRUE)

JsonValue ==
    \E k \in Keys :
        Called([op |-> "json_value", res |-> "Ok", key |-> k,
                out |-> json_value(problem, k)], Ok(problem), TRUE)

JsonString ==
    \E o \in Orders(problem.additional_fields) :
        Called([op |-> "json_string", res |-> "Ok", out |-> json_string(problem, o)],
               Ok(problem), TRUE)

JsonBytes ==
    \E o \in Orders(problem.additional_fields) :
        Called([op |-> "json_bytes", res |-> "Ok", out |-> json_bytes(problem, o)],
               Ok(problem), TRUE)

StatusOrInternalServerError ==
    Called([op |-> "status_or_internal_server_error", res |-> "Ok",
            out |-> status_or_internal_server_error(problem)], Ok(problem), TRUE)

Display ==
    Called([op |-> "fmt", res |-> "Ok", out |-> fmt(problem)], Ok(problem), TRUE)

\* the entity and the last result go out of scope
Drop ==
    /\ call /= NoCall
    /\ problem' = empty
    /\ owned' = FALSE
    /\ pre' = empty
    /\ call' = NoCall
    /\ ops' = 0

Next ==
    \/ Empty \/ New \/ TryNew \/ WithTitle \/ TryWithTitle
    \/ WithTitleAndType \/ TryWithTitleAndType \/ Deserialize
    \/ Status \/ TryStatus \/ TypeUrl \/ Title \/ Detail \/ Instance
    \/ TrySetValue \/ TryValue \/ SetValue \/ Value
    \/ GetValue \/ JsonValue \/ JsonString \/ JsonBytes
    \/ StatusOrInternalServerError
    \/ Display
    \/ Drop

Spec == Init /\ [][Next]_vars

(***************************************************************************)
(* Properties.                                                             *)
(***************************************************************************)
FixedNames == {"type", "status", "title", "detail", "instance"}

\* the names of the members of an encoded or decoded object
Names(members) == {members[i].name : i \in DOMAIN members}

\* the value of the last member called name
Last(members, name) ==
    LET i == CHOOSE i \in DOMAIN members :
                 /\ members[i].name = name
                 /\ \A j \in DOMAIN members : j > i => members[j].name /= name
    IN  members[i].v

\* no fixed member twice, and each string member a string or null
StringsWellFormed(members) ==
    /\ \A i, j \in DOMAIN members :
          (i /= j /\ members[i].name \in FixedNames) => members[i].name /= members[j].name
    /\ \A i \in DOMAIN members :
          members[i].name \in FixedNames \ {"status"} => members[i].v.t \in {"String", "Null"}

\* the field a string member of the object gives, None when it has none
Given(members, name) ==
    IF name \in Names(members) /\ Last(members, name).t = "String"
      THEN Some(Last(members, name).s)
      ELSE None

\* C1: try_set_value / try_value under one of the keys 'type', 'status',
\* 'title', 'detail', 'instance' fails, whatever the value, and the entity is
\* the same when the call returns as when it started.
C1_ReservedKeyRejected ==
    (call.op \in {"try_set_value", "try_value"} /\ call.key \in FixedNames)
        => /\ call.res = "Err"
           /\ problem.additional_fields = pre.additional_fields
           /\ problem = pre

C1_Witness ==
    /\ call.op = "try_value"
    /\ call.key = "instance"
    /\ call.arg = RU64(7)
    /\ call.res = "Err"
    /\ "trace" \in DOMAIN pre.additional_fields

\* C2 (as claimed): decoding an object whose 'status' member is not a valid
\* status code succeeds with status = None and every other member kept.
C2_InvalidStatusTolerated ==
    (/\ call.op = "deserialize"
     /\ StringsWellFormed(call.doc)
     /\ "status" \in Names(call.doc)
     /\ LET v == Last(call.doc, "status")
        IN  ~(v.t = "Number" /\ v.n >= 100 /\ v.n < 1000))
        => /\ call.res = "Ok"
           /\ problem.status = None
           /\ problem.type_url = Given(call.doc, "type")
           /\ problem.title = Given(call.doc, "title")
           /\ problem.detail = Given(call.doc, "detail")
           /\ problem.instance = Given(call.doc, "instance")
           /\ DOMAIN problem.additional_fields = Names(call.doc) \ FixedNames
           /\ \A k \in DOMAIN problem.additional_fields :
                 problem.additional_fields[k] = Last(call.doc, k)

\* C3: an entity without extensions, whatever fixed fields it has, decodes
\* from its encoding to itself.
C3_RoundTripFixed ==
    (owned /\ problem.additional_fields = EmptyMap)
        => /\ deserialize(json_string(problem, <<>>)) = Ok(problem)
           /\ deserialize(json_bytes(problem, <<>>)) = Ok(problem)

C3_Witness ==
    /\ owned
    /\ problem.additional_fields = EmptyMap
    /\ is_some(problem.type_url)
    /\ is_some(problem.status)
    /\ is_some(problem.title)
    /\ is_some(problem.detail)
    /\ is_none(problem.instance)

\* C4: decoding the encoding of an entity gives an extension map with the
\* same keys and the same JSON values, in whatever order the map was written.
C4_RoundTripExtensions ==
    owned => \A o \in Orders(problem.additional_fields) :
                LET r == deserialize(json_string(problem, o))
                IN  /\ r.res = "Ok"
                    /\ DOMAIN r.self.additional_fields = DOMAIN problem.additional_fields
                    /\ \A k \in DOMAIN problem.additional_fields :
                          r.self.additional_fields[k] = problem.additional_fields[k]

C4_Witness ==
    /\ owned
    /\ call.op = "try_set_value"
    /\ call.res = "Ok"
    /\ Cardinality(DOMAIN problem.additional_fields) = 2
    /\ is_some(problem.status)

\* C5: the encoded object has the member of a fixed field exactly when the
\* field is present, never as null, and a present status as its number.
C5_OmitAbsent ==
    call.op \in {"json_string", "json_bytes"}
        => LET out == call.out
               has(name) == \E i \in DOMAIN out : out[i].name = name
           IN  /\ has("type") <=> is_some(pre.type_url)
               /\ has("status") <=> is_some(pre.status)
               /\ has("title") <=> is_some(pre.title)
               /\ has("detail") <=> is_some(pre.detail)
               /\ has("instance") <=> is_some(pre.instance)
               /\ \A i \in DOMAIN out :
                     out[i].name \in FixedNames => out[i].v.t /= "Null"
               /\ \A i \in DOMAIN out :
                     out[i].name = "status" => out[i].v = JNumber(pre.status[1])

C5_Witness ==
    /\ call.op = "json_string"
    /\ is_none(pre.detail)
    /\ is_some(pre.status)
    /\ is_some(pre.title)
    /\ pre.additional_fields /= EmptyMap

\* C6: the effective status is the entity's status when it has one and 500
\* when it has none, for every entity a caller can hold.
C6_EffectiveStatus ==
    /\ owned => /\ is_some(problem.status)
                   => status_or_internal_server_error(problem) = problem.status[1]
                /\ is_none(problem.status)
                   => status_or_internal_server_error(problem) = 500
    /\ call.op = "status_or_internal_server_error"
          => call.out = (IF pre.status = <<>> THEN 500 ELSE pre.status[1])

C6_Witness ==
    /\ call.op = "deserialize"
    /\ call.res = "Ok"
    /\ "status" \in Names(call.doc)
    /\ Last(call.doc, "status") = JNumber(99)
    /\ owned
    /\ status_or_internal_server_error(problem) = 500

\* C7: set_value / value return normally, and with a reserved key or a value
\* that does not serialize the entity is the one the call started with.
C7_SilentNoOp ==
    call.op \in {"set_value", "value"}
        => /\ call.res = "Ok"
           /\ owned
           /\ (call.key \in ReservedNames \/ call.arg = RBadMap) => problem = pre

C7_Witness ==
    /\ call.op = "value"
    /\ call.key = "trace"
    /\ call.arg = RBadMap
    /\ "trace" \in DOMAIN pre.additional_fields
    /\ is_some(pre.title)

\* C8: get_value returns normally and leaves the entity alone; it gives None
\* for a key the map does not have and for a stored value that is not of the
\* requested type, and the converted value otherwise.
C8_GetValue ==
    call.op = "get_value"
        => /\ call.res = "Ok"
           /\ problem = pre
           /\ owned
           /\ call.key \notin DOMAIN pre.additional_fields => call.out = None
           /\ call.key \in DOMAIN pre.additional_fields
                 => LET v == pre.additional_fields[call.key]
                    IN  /\ (call.ty = "u64" /\ v.t = "Number") => call.out = Some(RU64(v.n))
                        /\ (call.ty = "u64" /\ v.t /= "Number") => call.out = None
                        /\ (call.ty = "String" /\ v.t = "String")
                              => call.out = Some(RString(v.s))
                        /\ (call.ty = "String" /\ v.t /= "String") => call.out = None

C8_Witness ==
    /\ call.op = "get_value"
    /\ call.key = "trace"
    /\ call.ty = "String"
    /\ "trace" \in DOMAIN pre.additional_fields
    /\ pre.additional_fields["trace"] = JNumber(7)
    /\ call.out = None

\* C9: a decoded object is not rejected for its unknown members: each goes
\* into the extension map under its name with its value, and the five known
\* names fill their fields and stay out of the map.
C9_UnknownMembersCollected ==
    (/\ call.op = "deserialize"
     /\ StringsWellFormed(call.doc)
     /\ "status" \in Names(call.doc)
           => LET v == Last(call.doc, "status")
              IN  v.t = "Null" \/ (v.t = "Number" /\ v.n >= 0 /\ v.n <= U16_MAX))
        => /\ call.res = "Ok"
           /\ DOMAIN problem.additional_fields = Names(call.doc) \ FixedNames
           /\ \A k \in Names(call.doc) \ FixedNames :
                 problem.additional_fields[k] = Last(call.doc, k)
           /\ problem.type_url = Given(call.doc, "type")
           /\ problem.title = Given(call.doc, "title")
           /\ problem.detail = Given(call.doc, "detail")
           /\ problem.instance = Given(call.doc, "instance")
           /\ \A i \in DOMAIN call.doc :
                 call.doc[i] = Member("status", JNumber(404))
                     => problem.status = Some(404)

C9_Witness ==
    /\ call.op = "deserialize"
    /\ call.res = "Ok"
    /\ Names(call.doc) = {"additional_fields", "title"}
    /\ "additional_fields" \in DOMAIN problem.additional_fields

\* C10: the fallible constructors and try_status fail with InvalidStatusCode
\* for the numeral 0 and for numerals of 1000 and more, and do not panic; an
\* entity try_new returns has its status and nothing else.
C10_InvalidStatusCode ==
    call.op \in {"try_new", "try_with_title", "try_with_title_and_type", "try_status"}
        => /\ call.res \in {"Ok", "Err"}
           /\ (call.num = 0 \/ call.num >= 1000)
                 => (call.res = "Err" /\ call.err = "InvalidStatusCode" /\ ~owned)
           /\ (call.op = "try_new" /\ call.res = "Ok")
                 => problem = [empty EXCEPT !.status = Some(call.num)]

C10_Witness ==
    /\ call.op = "try_status"
    /\ call.num = 0
    /\ call.res = "Err"
    /\ is_some(pre.status)

\* C11: with_title_and_type(s) gives status s, the title with_title(s) gives
\* (the reason phrase of s, "<unknown status code>" when it has none), the
\* type "https://httpstatuses.com/" followed by the numeral of s, and nothing
\* else.
C11_WithTitleAndType ==
    call.op = "with_title_and_type"
        => /\ call.res = "Ok"
           /\ owned
           /\ problem.status = Some(call.num)
           /\ problem.title = with_title(call.num).title
           /\ call.num = 503
                 => /\ problem.title = Some("Service Unavailable")
                    /\ problem.type_url = Some("https://httpstatuses.com/503")
           /\ call.num = 404
                 => /\ problem.title = Some("Not Found")
                    /\ problem.type_url = Some("https://httpstatuses.com/404")
           /\ call.num = 299
                 => /\ problem.title = Some("<unknown status code>")
                    /\ problem.type_url = Some("https://httpstatuses.com/299")
           /\ problem.detail = None
           /\ problem.instance = None
           /\ problem.additional_fields = EmptyMap

C11_Witness ==
    /\ call.op = "with_title_and_type"
    /\ call.num = 503
    /\ owned
    /\ is_some(problem.type_url)

\* C12: each fixed-field setter returns normally with its own field set to the
\* argument, whatever the field held before, and with the other four fields
\* and the extension map as they were.
C12_SettersReplace ==
    /\ call.op \in {"status", "type_url", "title", "detail", "instance"}
          => /\ call.res = "Ok"
             /\ owned
             /\ problem.additional_fields = pre.additional_fields
    /\ call.op = "status"
          => problem = [pre EXCEPT !.status = <<call.num>>]
    /\ call.op = "type_url"
          => problem = [pre EXCEPT !.type_url = <<call.str>>]
    /\ call.op = "title"
          => problem = [pre EXCEPT !.title = <<call.str>>]
    /\ call.op = "detail"
          => problem = [pre EXCEPT !.detail = <<call.str>>]
    /\ call.op = "instance"
          => problem = [pre EXCEPT !.instance = <<call.str>>]

\* the second of two calls of title, with another string
C12_Witness ==
    /\ call.op = "title"
    /\ call.str = "b"
    /\ pre.title = Some("a")
    /\ ops = 2
    /\ pre.additional_fields = EmptyMap
    /\ problem.title = Some("b")

\* C13: the rendering is the status code as StatusCode displays it, or
\* "<no status>"; then " - title - detail", " - title" or " - detail"; with
\* neither a title nor a detail, " - type_url" when there is a type URL and
\* nothing otherwise.
C13_Display ==
    call.op = "fmt"
        => LET head == IF pre.status = None THEN "<no status>"
                       ELSE StatusCode_fmt(pre.status[1])
               t == pre.title
               d == pre.detail
               u == pre.type_url
           IN  /\ call.res = "Ok"
               /\ problem = pre
               /\ (t /= None /\ d /= None)
                     => call.out = head \o " - " \o t[1] \o " - " \o d[1]
               /\ (t /= None /\ d = None) => call.out = head \o " - " \o t[1]
               /\ (t = None /\ d /= None) => call.out = head \o " - " \o d[1]
               /\ (t = None /\ d = None /\ u /= None)
                     => call.out = head \o " - " \o u[1]
               /\ (t = None /\ d = None /\ u = None) => call.out = head
               /\ pre = detail(with_title_and_type(404), "b")
                     => call.out = "404 Not Found - Not Found - b"
               /\ pre = type_url(empty, "a") => call.out = "<no status> - a"

\* a title and a type URL, and the type URL not rendered
C13_Witness ==
    /\ call.op = "fmt"
    /\ is_some(pre.status)
    /\ is_some(pre.title)
    /\ is_some(pre.type_url)
    /\ is_none(pre.detail)
    /\ call.out = "404 Not Found - Not Found"

\* C14 (as claimed): no key of the extension map of a reachable entity is one
\* of 'type', 'status', 'title', 'detail', 'instance', 'additional_fields'.
C14_NoReservedKey ==
    DOMAIN problem.additional_fields \cap ReservedNames = {}

\* C14 (amended): no key of the extension map is one of the five wire names;
\* the key 'additional_fields' is there only when the entity was decoded from
\* an object with a member of that name, never through a setter.
C14_NoFixedNameKey ==
    /\ DOMAIN problem.additional_fields \cap FixedNames = {}
    /\ "additional_fields" \in DOMAIN problem.additional_fields
          => \/ call.op = "deserialize" /\ "additional_fields" \in Names(call.doc)
             \/ "additional_fields" \in DOMAIN pre.additional_fields

C14_Witness ==
    /\ call.op = "set_value"
    /\ call.key = "additional_fields"
    /\ call.arg = RU64(7)
    /\ owned
    /\ DOMAIN problem.additional_fields = {"trace"}

\* C15: try_set_value either returns Ok, with the key mapped to the JSON form
\* of the value, every other entry and every fixed field as before and
\* json_value(key) giving that value, or returns Err (a reserved key, a value
\* that does not serialize) with the entity as it was.
C15_AllOrNothing ==
    call.op = "try_set_value"
        => /\ owned
           /\ \/ /\ call.res = "Ok"
                 /\ call.key \notin ReservedNames
                 /\ call.arg = RU64(7)
                 /\ DOMAIN problem.additional_fields
                       = DOMAIN pre.additional_fields \cup {call.key}
                 /\ problem.additional_fields[call.key] = JNumber(7)
                 /\ \A k \in DOMAIN pre.additional_fields \ {call.key} :
                       problem.additional_fields[k] = pre.additional_fields[k]
                 /\ problem = [pre EXCEPT !.additional_fields = problem.additional_fields]
                 /\ json_value(problem, call.key) = Some(JNumber(7))
              \/ /\ call.res = "Err"
                 /\ call.key \in ReservedNames \/ call.arg = RBadMap
                 /\ problem = pre

\* an entry overwritten beside another one that stays
C15_Witness ==
    /\ call.op = "try_set_value"
    /\ call.res = "Ok"
    /\ call.key = "trace"
    /\ DOMAIN pre.additional_fields = {"trace", "additional_fields"}
    /\ pre.additional_fields["trace"] = JString("a")
    /\ problem.additional_fields["trace"] = JNumber(7)

\* C16: json_string / json_bytes return normally for every entity a caller
\* can hold, and no two members of the encoded object have the same name,
\* in whatever order the extension map is written.
C16_EncodeDistinctNames ==
    /\ call.op \in {"json_string", "json_bytes"}
          => /\ call.res = "Ok"
             /\ problem = pre
             /\ \A i, j \in DOMAIN call.out :
                   i /= j => call.out[i].name /= call.out[j].name
    /\ owned
          => \A o \in Orders(problem.additional_fields) :
                LET out == json_bytes(problem, o)
                IN  Len(out) = Cardinality(Names(out))

\* an entity with fixed fields and two extensions, one of them under the
\* struct's field name type_url, encoded
C16_Witness ==
    /\ call.op = "json_string"
    /\ is_some(pre.type_url)
    /\ is_some(pre.status)
    /\ DOMAIN pre.additional_fields = {"type_url"}
    /\ Len(call.out) = 4

====
